---- MODULE Spec2Model ----
(***************************************************************************)
(* Model of two Home Assistant adapters:                                   *)
(*   - homekit/type_switches.py : the HomeKit Switch accessory bridge      *)
(*   - light/tradfri.py         : the IKEA Tradfri light / group platform  *)
(*                                                                         *)
(* Each adapter is modelled statement by statement.  Optional values       *)
(* (Python None, a keyword argument that is not passed) are sequences of   *)
(* length 0 or 1: None == << >>, a present value v is << v >>.             *)
(***************************************************************************)
EXTENDS Integers, Sequences, FiniteSets, TLC

None == << >>
Some(v) == << v >>

(***************************************************************************)
(* Bounds of the model.                                                    *)
(***************************************************************************)
\* number of set_state / update_state calls followed in one behaviour
MaxOps == 4

(***************************************************************************)
(*                       homekit/type_switches.py                          *)
(***************************************************************************)
VARIABLES
    entity_id,          \* Switch._entity_id, tokens of "domain.object_id"
    domain,             \* Switch._domain, the tokens before the first "."
    flag_target_state,  \* Switch.flag_target_state
    char_on,            \* Switch.char_on.value
    service_calls,      \* calls made to hass.services.call, in order
    pushes,             \* calls made to char_on.set_value, in order
    nops,               \* number of handler invocations so far
    last                \* the last handler invocation and how it ended;
                        \* call_failed: the latest services.call raised

switch_vars == << entity_id, domain, flag_target_state, char_on,
                  service_calls, pushes, nops, last >>

\* homeassistant.const, as imported at line 4-5
SERVICE_TURN_ON == "turn_on"
SERVICE_TURN_OFF == "turn_off"
STATE_ON == "on"
ATTR_ENTITY_ID == "entity_id"

\* entity ids the accessory may be built for; "switch.test" is the token
\* sequence << "switch", ".", "test" >>
EntityIds == { << "switch", ".", "test" >>,
               << "remote", ".", "tv" >>,
               << "input_boolean", ".", "test" >> }

\* state strings a host state object may carry
StateStrings == { "on", "off", "unavailable" }

\* homeassistant.core.split_entity_id: entity_id.split(".", 1)
split_entity_id(e) ==
    LET dot == CHOOSE i \in 1..Len(e) :
                   /\ e[i] = "."
                   /\ \A j \in 1..(i - 1) : e[j] # "."
    IN  << SubSeq(e, 1, dot - 1), SubSeq(e, dot + 1, Len(e)) >>

\* Switch.__init__
SwitchInit ==
    /\ entity_id \in EntityIds
    /\ domain = split_entity_id(entity_id)[1]
    /\ flag_target_state = FALSE
    /\ char_on = FALSE
    /\ service_calls = << >>
    /\ pushes = << >>
    /\ nops = 0
    /\ last = [op |-> "__init__", value |-> FALSE, new_state |-> None,
               raised |-> FALSE, pushed |-> FALSE,
               call_failed |-> FALSE]

ServiceFor_swapped(value) == IF value THEN SERVICE_TURN_OFF ELSE SERVICE_TURN_ON

\* the service chosen at line 39
ServiceFor(value) == IF value THEN SERVICE_TURN_ON ELSE SERVICE_TURN_OFF

\* the arguments of hass.services.call at lines 40-41
ServiceCall(value) ==
    [domain |-> domain, service |-> ServiceFor(value),
     data |-> [entity_id |-> entity_id]]

FlagAfterSetState_toggled == ~flag_target_state

\* the flag after line 38
FlagAfterSetState == TRUE

Raises_caught(fails) == FALSE

\* whether set_state raises: lines 40-41 are in no try block
Raises(fails) == fails

\* Switch.set_state(value); `fails` is whether hass.services.call raises.
\* Nothing catches the exception: it leaves set_state after line 38 ran.
set_state(value, fails) ==
    /\ nops < MaxOps
    /\ flag_target_state' = FlagAfterSetState
    /\ service_calls' = Append(service_calls, ServiceCall(value))
    /\ nops' = nops + 1
    /\ last' = [op |-> "set_state", value |-> value, new_state |-> None,
                raised |-> Raises(fails), pushed |-> FALSE,
                call_failed |-> fails]
    /\ UNCHANGED << entity_id, domain, char_on, pushes >>

\* line 48
CurrentState(new_state) == (new_state[1] = STATE_ON)

ShouldPush_always == TRUE

\* line 49: whether update_state pushes to the characteristic
ShouldPush == ~flag_target_state

FlagAfterUpdate_keep(new_state) == flag_target_state

FlagAfterUpdate_clear(new_state) == FALSE

\* the flag after update_state(new_state): line 45-46 returns early,
\* line 54 clears
FlagAfterUpdate(new_state) ==
    IF new_state = None THEN flag_target_state ELSE FALSE

\* char_on.set_value(value, should_callback) as used at line 52: stores the
\* value; the setter callback (set_state, line 32) runs only when
\* should_callback is true.
set_value(value, should_callback) ==
    /\ char_on' = value
    /\ pushes' = Append(pushes, [value |-> value,
                                 should_callback |-> should_callback])
    /\ IF should_callback
       THEN service_calls' = Append(service_calls, ServiceCall(value))
       ELSE UNCHANGED service_calls

ShouldCallback_enabled == TRUE

\* the should_callback argument at line 52
ShouldCallback == FALSE

\* Switch.update_state(entity_id, old_state, new_state)
update_state(new_state) ==
    /\ nops < MaxOps
    /\ IF new_state = None
       THEN UNCHANGED << char_on, pushes, service_calls >>
       ELSE IF ShouldPush
            THEN set_value(CurrentState(new_state), ShouldCallback)
            ELSE UNCHANGED << char_on, pushes, service_calls >>
    /\ flag_target_state' = FlagAfterUpdate(new_state)
    /\ nops' = nops + 1
    /\ last' = [op |-> "update_state", value |-> FALSE,
                new_state |-> new_state, raised |-> FALSE,
                pushed |-> new_state # None /\ ShouldPush,
                call_failed |-> last.call_failed]
    /\ UNCHANGED << entity_id, domain >>

(***************************************************************************)
(*                           light/tradfri.py                              *)
(*                                                                         *)
(* async_turn_on delegates with `yield from` at lines 244 and 252 and with *)
(* `await` elsewhere; both are modelled as awaiting the command.  A name   *)
(* the module never binds raises NameError where it is evaluated.          *)
(***************************************************************************)
VARIABLES
    cls,         \* the class of the adapter instance: TradfriLight / TradfriGroup
    cache,       \* the instance's cached snapshot (the fields _refresh assigns)
    calls,       \* per task: one invocation of async_turn_on / async_turn_off
    ncalls,      \* number of invocations started so far
    obs,         \* the observe loop: position, stack depth, attempts started
    ha_updates,  \* number of async_schedule_update_ha_state() calls
    delivered    \* push updates delivered to _observe_update: how many, the
                 \* device handle of the last one, the cache it found

tradfri_vars == << cls, cache, calls, ncalls, obs, ha_updates, delivered >>

\* the arguments of a normalize_xy call, in thousandths, and what it returned
VARIABLES
    xy_arg,
    xy_result

conv_vars == << xy_arg, xy_result >>

vars == << switch_vars, tradfri_vars, conv_vars >>

\* tasks (coroutines) that may run an invocation on the adapter instance
MaxTasks == 2
Tasks == 1..MaxTasks
\* invocations of turn_on / turn_off followed in one behaviour
MaxCalls == 2

\* line 27 and lines 323-326, as sets of flag names (| is set union)
SUPPORTED_FEATURES == { "SUPPORT_BRIGHTNESS", "SUPPORT_TRANSITION" }
SUPPORT_COLOR_TEMP == { "SUPPORT_COLOR_TEMP" }
SUPPORT_COLOR == { "SUPPORT_COLOR" }

\* a pytradfri device handle with light control
LightHandle(name, reachable, can_set_mireds, can_set_color, hex_color) ==
    [name |-> name, reachable |-> reachable,
     light_control |->
        [can_set_mireds |-> can_set_mireds, can_set_color |-> can_set_color,
         lights |-> << [hex_color |-> hex_color] >>]]

LightHandles ==
    { LightHandle("bulb", TRUE, FALSE, FALSE, None),
      LightHandle("bulb", TRUE, TRUE, FALSE, Some("f5faf6")),
      LightHandle("lamp", FALSE, FALSE, TRUE, Some("d6e44b")),
      LightHandle("lamp", TRUE, TRUE, TRUE, None) }

\* a pytradfri group handle
GroupHandles ==
    { [name |-> "living", state |-> TRUE, dimmer |-> 100],
      [name |-> "kitchen", state |-> FALSE, dimmer |-> 0] }

\* TradfriLight._refresh(light), on top of the fields __init__ set
LightRefresh(light) ==
    [light |-> light,
     available |-> light.reachable,
     light_control |-> light.light_control,
     light_data |-> light.light_control.lights[1],
     name |-> light.name,
     hs_color |-> None,
     features |->
        (SUPPORTED_FEATURES
         \cup (IF light.light_control.can_set_mireds
               THEN SUPPORT_COLOR_TEMP ELSE {}))
         \cup (IF light.light_control.can_set_color
               THEN SUPPORT_COLOR ELSE {})]

\* TradfriGroup._refresh(group)
GroupRefresh(group) == [group |-> group, name |-> group.name]

(***************************************************************************)
(* Keyword arguments of turn_on.  A transition is given in tenths of a     *)
(* second (15 is 1.5 s), an XY coordinate in thousandths (500 is 0.5).     *)
(***************************************************************************)
Brightnesses == { 0, 254, 255 }
TransitionTenths == { 15, 20 }
OptOf(S) == { None } \cup { Some(v) : v \in S }

LightKwargs ==
    [hs_color : OptOf({ << 10, 50 >> }),
     color_temp : OptOf({ 300 }),
     xy_color : OptOf({ << 500, 400 >> }),
     rgb_color : OptOf({ << 255, 0, 0 >> }),
     brightness : OptOf(Brightnesses),
     transition : OptOf(TransitionTenths)]

GroupKwargs ==
    [hs_color : { None }, color_temp : { None }, xy_color : { None },
     rgb_color : { None },
     brightness : OptOf(Brightnesses),
     transition : OptOf(TransitionTenths)]

\* one value per keyword, each keyword given or not
LightKwargsOneEach ==
    { k \in LightKwargs :
        /\ k.brightness \in { None, Some(255) }
        /\ k.transition \in { None, Some(15) } }

\* at most one keyword given
LightKwargsSingle ==
    { k \in LightKwargsOneEach :
        Cardinality({ f \in DOMAIN k : k[f] # None }) <= 1 }

\* int(x) of a non-negative x given in tenths
IntOfTenths(x) == x \div 10

\* int(kwargs[ATTR_TRANSITION]) * 10, lines 114 and 257
TransitionTime(transition) == IntOfTenths(transition) * 10

\* normalize_xy(argx, argy): int(arg*65535 + 0.56), arguments in thousandths
\* (k/1000 * 65535 + 0.56 = (k * 65535 + 560) / 1000, truncated)
normalize_xy_bias36(argx, argy) ==
    << (argx * 65535 + 36560) \div 1000,
       (argy * 65535 + 36560) \div 1000 >>

normalize_xy(argx, argy) ==
    << (argx * 65535 + 560) \div 1000,
       (argy * 65535 + 560) \div 1000 >>

\* a device command built by the pytradfri handle; transition_time is the
\* optional keyword argument
Cmd(name, args, transition_time) ==
    [name |-> name, args |-> args, transition_time |-> transition_time]

\* what a coroutine does from where it stands: the commands it awaits, in
\* order, and how it ends after the last of them ("return" or the exception)
Plan(cmds, ending) == [cmds |-> cmds, ending |-> ending]

\* lines 11-14 import neither ATTR_XY_COLOR nor ATTR_RGB_COLOR, and nothing
\* else in the module binds them
ATTR_XY_COLOR_bound == FALSE
ATTR_RGB_COLOR_bound == FALSE

\* line 283-284 and 117-118
DimmerValue(brightness) == IF brightness = 255 THEN 254 ELSE brightness
\* what reading self._temp_supported at line 249 can give: no line of the
\* module assigns the attribute, so the read raises AttributeError unless a
\* base class supplies a value
TempSupportedReads == { "AttributeError", "True", "False" }

\* whether line 249 is reached (`and` evaluates left to right)
ReadsTempSupported(kwargs, hex_color) ==
    /\ ~(kwargs.hs_color # None /\ hex_color # None)
    /\ kwargs.color_temp # None
    /\ hex_color # None

ColorChain_tempFirst(kwargs, hex_color, temp_supported) ==
    IF kwargs.color_temp # None /\ hex_color # None
    THEN Plan(<< Cmd("set_kelvin_color",
                     << "color_temperature_mired_to_kelvin",
                        kwargs.color_temp[1] >>, None) >>, "return")
    ELSE IF kwargs.hs_color # None /\ hex_color # None
         THEN Plan(<< Cmd("set_rgb_color",
                          << "color_hs_to_RGB", kwargs.hs_color[1] >>,
                          None) >>, "return")
         ELSE Plan(<< >>, "return")

\* lines 242-253: the if / elif on HS color and color temperature
ColorChain(kwargs, hex_color, temp_supported) ==
    IF kwargs.hs_color # None /\ hex_color # None
    THEN Plan(<< Cmd("set_rgb_color",
                     << "color_hs_to_RGB", kwargs.hs_color[1] >>,
                     None) >>, "return")
    ELSE IF kwargs.color_temp # None /\ hex_color # None
         THEN IF temp_supported = "AttributeError"
              THEN Plan(<< >>, "AttributeError")
              ELSE IF temp_supported = "True"
                   THEN Plan(<< Cmd("set_kelvin_color",
                                    << "color_temperature_mired_to_kelvin",
                                       kwargs.color_temp[1] >>,
                                    None) >>, "return")
                   ELSE Plan(<< >>, "return")
         ELSE Plan(<< >>, "return")

\* lines 255-257: params
ParamsOf(kwargs) ==
    IF kwargs.transition # None
    THEN Some(TransitionTime(kwargs.transition[1]))
    ELSE None

\* lines 262-263, 268-269, 276-277: params.pop(ATTR_TRANSITION_TIME, None)
\* removes the key from the one params dict, which line 288 passes on
ParamsAfterPop(params, brightness) ==
    IF brightness # None THEN None ELSE params

\* lines 259-280: the if / elif on XY, RGB and color temperature; the
\* result carries params as the chain leaves it
AttributeChain(kwargs) ==
    LET params == ParamsOf(kwargs)
        brightness == kwargs.brightness
        popped == ParamsAfterPop(params, brightness)
        Result(cmds, ending, p) ==
            [cmds |-> cmds, ending |-> ending, params |-> p]
    IN  IF ~ATTR_XY_COLOR_bound
        THEN Result(<< >>, "NameError", params)
        ELSE IF kwargs.xy_color # None
        THEN Result(<< Cmd("set_xy_color",
                           normalize_xy(kwargs.xy_color[1][1],
                                        kwargs.xy_color[1][2]),
                           popped) >>, "return", popped)
        ELSE IF ~ATTR_RGB_COLOR_bound
        THEN Result(<< >>, "NameError", params)
        ELSE IF kwargs.rgb_color # None
        THEN Result(<< Cmd("set_xy_color",
                           << "normalize_xy",
                              << "color_RGB_to_xy", kwargs.rgb_color[1] >> >>,
                           popped) >>, "return", popped)
        ELSE IF kwargs.color_temp # None
        THEN Result(<< Cmd("set_color_temp", << kwargs.color_temp[1] >>,
                           popped) >>, "return", popped)
        ELSE Result(<< >>, "return", params)

\* lines 282-291
FinalCommand(brightness, params) ==
    IF brightness # None
    THEN Cmd("set_dimmer", << DimmerValue(brightness[1]) >>, params)
    ELSE Cmd("set_state", << TRUE >>, None)

\* TradfriLight.async_turn_on(**kwargs), lines 235-291
LightTurnOnPlan(kwargs, hex_color, temp_supported) ==
    LET c1 == ColorChain(kwargs, hex_color, temp_supported)
    IN  IF c1.ending # "return"
        THEN c1
        ELSE LET c2 == AttributeChain(kwargs)
             IN  IF c2.ending # "return"
                 THEN Plan(c1.cmds \o c2.cmds, c2.ending)
                 ELSE Plan(c1.cmds \o c2.cmds
                             \o << FinalCommand(kwargs.brightness,
                                                c2.params) >>,
                           "return")

\* TradfriLight.async_turn_off, line 233
LightTurnOffPlan == Plan(<< Cmd("set_state", << FALSE >>, None) >>, "return")

GroupDimmerValue_unclamped(brightness) == brightness

\* lines 117-118
GroupDimmerValue(brightness) == IF brightness = 255 THEN 254 ELSE brightness

GroupKeys_untimed(kwargs) == None

\* lines 112-114: keys
GroupKeys(kwargs) ==
    IF kwargs.transition # None
    THEN Some(TransitionTime(kwargs.transition[1]))
    ELSE None

\* TradfriGroup.async_turn_on(**kwargs), lines 110-123
GroupTurnOnPlan(kwargs) ==
    IF kwargs.brightness # None
    THEN Plan(<< Cmd("set_dimmer",
                     << GroupDimmerValue(kwargs.brightness[1]) >>,
                     GroupKeys(kwargs)) >>, "return")
    ELSE Plan(<< Cmd("set_state", << 1 >>, None) >>, "return")

\* TradfriGroup.async_turn_off, line 108
GroupTurnOffPlan == Plan(<< Cmd("set_state", << 0 >>, None) >>, "return")

NoKwargs ==
    [hs_color |-> None, color_temp |-> None, xy_color |-> None,
     rgb_color |-> None, brightness |-> None, transition |-> None]

\* a task that runs no invocation
IdleCall ==
    [op |-> "none", kwargs |-> NoKwargs, hex_color |-> None,
     temp_supported |-> "unread",
     issued |-> << >>, completed |-> 0, pending |-> << >>,
     ending |-> "return",
     inflight |-> FALSE, status |-> "idle"]

\* the coroutine runs up to its next await (a command handed to self._api)
\* or to its end
Advance_noAwait(call, cmds, ending) ==
    [call EXCEPT !.issued = call.issued \o cmds,
                 !.pending = << >>, !.ending = ending,
                 !.inflight = FALSE,
                 !.status = IF ending = "return" THEN "returned"
                                                 ELSE "raised"]

Advance(call, cmds, ending) ==
    IF cmds = << >>
    THEN [call EXCEPT !.pending = << >>, !.ending = ending,
                      !.inflight = FALSE,
                      !.status = IF ending = "return" THEN "returned"
                                                      ELSE "raised"]
    ELSE [call EXCEPT !.issued = Append(call.issued, Head(cmds)),
                      !.pending = Tail(cmds), !.ending = ending,
                      !.inflight = TRUE, !.status = "running"]

CacheAfterCall_optimistic(old, op) ==
    [old EXCEPT !.name = IF op = "turn_on" THEN "on" ELSE "off"]

\* the cache after async_turn_on / async_turn_off ran up to its first
\* await: lines 106-123 and 231-291 assign no attribute of self
CacheAfterCall(old, op) == old

\* the event loop is not inside _async_start_observe (a plain callback,
\* which runs to its end before anything else is scheduled)
LoopFree == obs.state \notin { "in_try", "in_except" }

\* task t starts an invocation that follows plan; hex_color and
\* temp_supported are what the invocation read from the instance
Begin(t, op, kwargs, hex_color, temp_supported, plan) ==
    /\ LoopFree
    /\ ncalls < MaxCalls
    /\ calls[t].status # "running"
    /\ calls' = [calls EXCEPT ![t] =
                    Advance([IdleCall EXCEPT !.op = op, !.kwargs = kwargs,
                                !.hex_color = hex_color,
                                !.temp_supported = temp_supported],
                            plan.cmds, plan.ending)]
    /\ ncalls' = ncalls + 1
    /\ cache' = CacheAfterCall(cache, op)
    /\ UNCHANGED << cls, obs, ha_updates, delivered, switch_vars,
                 conv_vars >>

\* TradfriLight.async_turn_on with keyword arguments drawn from K
LightTurnOnFrom(t, K) ==
    /\ cls = "TradfriLight"
    /\ \E kwargs \in K :
         \E ts \in (IF ReadsTempSupported(kwargs, cache.light_data.hex_color)
                    THEN TempSupportedReads ELSE { "unread" }) :
            Begin(t, "turn_on", kwargs, cache.light_data.hex_color, ts,
                  LightTurnOnPlan(kwargs, cache.light_data.hex_color, ts))

LightTurnOff(t) ==
    /\ cls = "TradfriLight"
    /\ Begin(t, "turn_off", NoKwargs, None, "unread", LightTurnOffPlan)

LightTurnOn(t) == LightTurnOnFrom(t, LightKwargs)

\* TradfriGroup.async_turn_on with keyword arguments drawn from K
GroupTurnOnFrom(t, K) ==
    /\ cls = "TradfriGroup"
    /\ \E kwargs \in K :
         Begin(t, "turn_on", kwargs, None, "unread",
               GroupTurnOnPlan(kwargs))

GroupTurnOn(t) == GroupTurnOnFrom(t, GroupKwargs)

GroupTurnOff(t) ==
    /\ cls = "TradfriGroup"
    /\ Begin(t, "turn_off", NoKwargs, None, "unread", GroupTurnOffPlan)

\* the command task t awaits completes and the coroutine resumes
CommandDone(t) ==
    /\ LoopFree
    /\ calls[t].inflight
    /\ calls' = [calls EXCEPT ![t] =
                    Advance([calls[t] EXCEPT !.completed = @ + 1],
                            calls[t].pending, calls[t].ending)]
    /\ UNCHANGED << cls, cache, ncalls, obs, ha_updates, delivered, switch_vars,
                 conv_vars >>

\* the observe loop before async_added_to_hass
ObsIdle == [state |-> "idle", depth |-> 0, attempts |-> 0]

(***************************************************************************)
(* The observe loop, lines 125-152 and 293-332 (the same code in both      *)
(* classes).  _async_start_observe runs on the event loop; while it runs,  *)
(* nothing else does.  obs.state is where the loop stands:                 *)
(*   "idle"       async_added_to_hass has not run                          *)
(*   "in_try"     an attempt has started: the try block is running         *)
(*   "in_except"  the attempt raised PytradfriError: in the except clause, *)
(*                about to call self._async_start_observe()                *)
(*   "observing"  the observe command was handed to hass.async_add_job     *)
(*                and _async_start_observe returned                        *)
(*   "crashed"    an exception other than PytradfriError left              *)
(*                _async_start_observe: no frame of it remains             *)
(* obs.depth counts the nested frames of _async_start_observe, and         *)
(* obs.attempts the attempts started.                                      *)
(***************************************************************************)
\* nested frames of _async_start_observe the interpreter allows before the
\* call at line 141 / 309 raises RecursionError (CPython allows 1000 frames
\* by default; the model scales the limit down)
MaxRecursion == 3
\* attempts started from the event loop that one behaviour follows
MaxAttempts == 3
\* push updates delivered in one behaviour
MaxPushes == 3

\* a call of _async_start_observe from the event loop starts an attempt
\* (line 134 / 302) in the first frame
EnterFromLoop(o) ==
    [state |-> "in_try", depth |-> 1, attempts |-> o.attempts + 1]

\* async_added_to_hass, lines 77-79 and 181-183
AddedToHass ==
    /\ cls # "none"
    /\ obs.state = "idle"
    /\ obs' = EnterFromLoop(obs)
    /\ UNCHANGED << cls, cache, calls, ncalls, ha_updates, delivered, switch_vars,
                 conv_vars >>

\* lines 135-138 / 303-306 complete: the command is scheduled and every
\* frame of _async_start_observe returns
ObserveScheduled ==
    /\ obs.state = "in_try"
    /\ obs' = [obs EXCEPT !.state = "observing", !.depth = 0]
    /\ UNCHANGED << cls, cache, calls, ncalls, ha_updates, delivered, switch_vars,
                 conv_vars >>

\* lines 135-138 / 303-306 raise PytradfriError, caught at line 139 / 307
ObserveRaises ==
    /\ obs.state = "in_try"
    /\ obs' = [obs EXCEPT !.state = "in_except"]
    /\ UNCHANGED << cls, cache, calls, ncalls, ha_updates, delivered, switch_vars,
                 conv_vars >>

\* line 141 / 309: the recursive call starts the next attempt in a new frame
RetryRecursively ==
    /\ obs.state = "in_except"
    /\ obs.depth < MaxRecursion
    /\ obs' = [obs EXCEPT !.state = "in_try", !.depth = @ + 1,
                          !.attempts = @ + 1]
    /\ UNCHANGED << cls, cache, calls, ncalls, ha_updates, delivered, switch_vars,
                 conv_vars >>

\* line 141 / 309 at the recursion limit: RecursionError is no
\* PytradfriError, so no frame catches it
RecursionLimitHit ==
    /\ obs.state = "in_except"
    /\ obs.depth >= MaxRecursion
    /\ obs' = [obs EXCEPT !.state = "crashed", !.depth = 0]
    /\ UNCHANGED << cls, cache, calls, ncalls, ha_updates, delivered, switch_vars,
                 conv_vars >>

\* the running observation fails: the gateway client calls err_callback,
\* which is _async_start_observe(exc) (line 136 / 304)
ErrCallback ==
    /\ obs.state = "observing"
    /\ obs.attempts < MaxAttempts
    /\ obs' = EnterFromLoop(obs)
    /\ UNCHANGED << cls, cache, calls, ncalls, ha_updates, delivered, switch_vars,
                 conv_vars >>

\* no push update was delivered yet
NoneDelivered == [n |-> 0, device |-> None, before |-> None]

CacheAfterPush_merged(old, tradfri_device) ==
    IF cls = "TradfriLight"
    THEN [LightRefresh(tradfri_device) EXCEPT
              !.features = @ \cup old.features]
    ELSE GroupRefresh(tradfri_device)

\* line 151 / 331: self._refresh(tradfri_device); nothing of the old cache
\* is read
CacheAfterPush(old, tradfri_device) ==
    IF cls = "TradfriLight"
    THEN LightRefresh(tradfri_device)
    ELSE GroupRefresh(tradfri_device)

ObsAfterPush_resubscribe(o) == EnterFromLoop(o)

\* the observe loop after _observe_update, lines 148-152 / 328-332: the
\* callback does not call _async_start_observe
ObsAfterPush(o) == o

\* _observe_update(tradfri_device), lines 148-152 / 328-332
ObserveUpdate(tradfri_device) ==
    /\ obs.state = "observing"
    /\ ha_updates < MaxPushes
    /\ cache' = CacheAfterPush(cache, tradfri_device)
    /\ ha_updates' = ha_updates + 1
    /\ delivered' = [n |-> delivered.n + 1, device |-> Some(tradfri_device),
                     before |-> Some(cache)]
    /\ obs' = ObsAfterPush(obs)
    /\ UNCHANGED << cls, calls, ncalls, switch_vars,
                 conv_vars >>

\* a push update arrives on the running observation
Push ==
    \E d \in (IF cls = "TradfriLight" THEN LightHandles ELSE GroupHandles) :
        ObserveUpdate(d)

\* TradfriLight.__init__ / TradfriGroup.__init__
TradfriInit ==
    /\ cls \in { "TradfriLight", "TradfriGroup" }
    /\ cache \in (IF cls = "TradfriLight"
                  THEN { LightRefresh(h) : h \in LightHandles }
                  ELSE { GroupRefresh(h) : h \in GroupHandles })
    /\ calls = [t \in Tasks |-> IdleCall]
    /\ ncalls = 0
    /\ obs = ObsIdle
    /\ ha_updates = 0
    /\ delivered = NoneDelivered

\* no Tradfri adapter instance exists
NoTradfri ==
    /\ cls = "none"
    /\ cache = None
    /\ calls = [t \in Tasks |-> IdleCall]
    /\ ncalls = 0
    /\ obs = ObsIdle
    /\ ha_updates = 0
    /\ delivered = NoneDelivered

\* no Switch accessory exists
NoSwitch ==
    /\ entity_id = None
    /\ domain = None
    /\ flag_target_state = FALSE
    /\ char_on = FALSE
    /\ service_calls = << >>
    /\ pushes = << >>
    /\ nops = 0
    /\ last = [op |-> "none", value |-> FALSE, new_state |-> None,
               raised |-> FALSE, pushed |-> FALSE,
               call_failed |-> FALSE]


SetState ==
    /\ \E value \in BOOLEAN, fails \in BOOLEAN : set_state(value, fails)
    /\ UNCHANGED << tradfri_vars, conv_vars >>

UpdateState ==
    \E new_state \in { None } \cup { Some(s) : s \in StateStrings } :
        update_state(new_state) /\ UNCHANGED << tradfri_vars, conv_vars >>

\* normalize_xy has not been called
NoConversion ==
    /\ xy_arg = << 0, 0 >>
    /\ xy_result = None

\* chromaticity coordinates in thousandths of the unit interval
Coords == { 0, 1, 172, 250, 313, 329, 444, 500, 640, 701, 735, 999, 1000 }

ConvInit ==
    /\ xy_arg \in Coords \X Coords
    /\ xy_result = None

\* a call normalize_xy(argx, argy) returns
NormalizeXy ==
    /\ xy_result = None
    /\ xy_result' = Some(normalize_xy(xy_arg[1], xy_arg[2]))
    /\ UNCHANGED << xy_arg, switch_vars, tradfri_vars >>

Init == SwitchInit /\ NoTradfri /\ NoConversion

Next == SetState \/ UpdateState

Spec == Init /\ [][Next]_vars

\* turn_on / turn_off invocations on one adapter instance, one at a time
InitTurnOn == TradfriInit /\ NoSwitch /\ NoConversion

NextTurnOn ==
    \/ LightTurnOn(1)
    \/ LightTurnOff(1)
    \/ GroupTurnOn(1)
    \/ GroupTurnOff(1)
    \/ CommandDone(1)

SpecTurnOn == InitTurnOn /\ [][NextTurnOn]_vars

\* invocations, one at a time, while push updates arrive
InitCache == TradfriInit /\ NoSwitch /\ NoConversion

StartObserving == AddedToHass \/ ObserveScheduled

NextCache ==
    \/ LightTurnOnFrom(1, LightKwargsOneEach)
    \/ LightTurnOff(1)
    \/ GroupTurnOn(1)
    \/ GroupTurnOff(1)
    \/ CommandDone(1)
    \/ StartObserving
    \/ Push

SpecCache == InitCache /\ [][NextCache]_vars

\* invocations started by several tasks, overlapping on the event loop
InitOverlap == TradfriInit /\ NoSwitch /\ NoConversion

NextOverlap ==
    \E t \in Tasks :
        \/ LightTurnOnFrom(t, LightKwargsSingle)
        \/ LightTurnOff(t)
        \/ GroupTurnOn(t)
        \/ GroupTurnOff(t)
        \/ CommandDone(t)

SpecOverlap == InitOverlap /\ [][NextOverlap]_vars

\* calls of normalize_xy on the coordinates of Coords
InitConv == ConvInit /\ NoSwitch /\ NoTradfri

NextConv == NormalizeXy

SpecConv == InitConv /\ [][NextConv]_vars

\* the observe loop of one adapter instance
InitObserve == TradfriInit /\ NoSwitch /\ NoConversion

NextObserve ==
    \/ AddedToHass
    \/ ObserveScheduled
    \/ ObserveRaises
    \/ RetryRecursively
    \/ RecursionLimitHit
    \/ ErrCallback
    \/ Push

SpecObserve == InitObserve /\ [][NextObserve]_vars

(***************************************************************************)
(*                    Properties of the Switch bridge                      *)
(***************************************************************************)
\* a step that is one invocation of the named handler
IsStep(op) == nops' = nops + 1 /\ last'.op = op

\* C1: every set_state(value) issues exactly one host service call, on the
\* entity's domain and carrying the entity id, with service turn_on when
\* value is true and turn_off when it is false; it sets the suppression
\* flag, and the flag stays set until the next update_state call.
C1_SetStateCallsService ==
    [][ /\ IsStep("set_state") =>
            /\ Len(service_calls') = Len(service_calls) + 1
            /\ SubSeq(service_calls', 1, Len(service_calls)) = service_calls
            /\ LET c == service_calls'[Len(service_calls')]
               IN  /\ c.domain = << entity_id[1] >>
                   /\ c.data.entity_id = entity_id
                   /\ c.service = (IF last'.value THEN "turn_on" ELSE "turn_off")
            /\ flag_target_state'
        /\ (flag_target_state /\ ~IsStep("update_state")) => flag_target_state'
      ]_vars

C1_Witness ==
    /\ last.op = "set_state"
    /\ last.value
    /\ nops = 2
    /\ Len(service_calls) = 2
    /\ service_calls[1].service = "turn_off"
    /\ service_calls[2].service = "turn_on"
    /\ flag_target_state

\* C2: update_state with a present new state pushes nothing when the
\* suppression flag is set; when it is unset it pushes exactly one value,
\* the boolean (state string = "on"), with the feedback callback disabled;
\* in both cases the flag is false afterwards.
C2_UpdatePushesUnlessSuppressed ==
    [][ (IsStep("update_state") /\ last'.new_state # None) =>
            /\ IF flag_target_state
               THEN pushes' = pushes /\ char_on' = char_on
               ELSE /\ pushes' = Append(pushes,
                                   [value |-> (last'.new_state[1] = "on"),
                                    should_callback |-> FALSE])
                    /\ char_on' = (last'.new_state[1] = "on")
            /\ service_calls' = service_calls
            /\ ~flag_target_state'
      ]_vars

C2_Witness ==
    /\ last.op = "update_state"
    /\ last.new_state = Some("on")
    /\ nops = 3
    /\ Len(service_calls) = 1
    /\ pushes = << [value |-> TRUE, should_callback |-> FALSE] >>
    /\ char_on
    /\ ~flag_target_state

\* C3 as stated: after any call to update_state, whatever its new_state
\* argument (an absent one included), the suppression flag is false.
C3_ClearedByEveryUpdate ==
    [][ IsStep("update_state") => ~flag_target_state' ]_vars

\* C3 as amended: every update_state call with a present new state clears
\* the flag, whatever the state string and whether or not a value was
\* pushed; a call with an absent new state leaves the flag as it was.
C3_ClearedByEveryPresentUpdate ==
    [][ IsStep("update_state") =>
            flag_target_state' =
                (IF last'.new_state = None THEN flag_target_state ELSE FALSE)
      ]_vars

C3_Witness ==
    /\ last.op = "update_state"
    /\ last.new_state = Some("unavailable")
    /\ nops = 2
    /\ Len(service_calls) = 1
    /\ pushes = << >>
    /\ ~flag_target_state

\* C4: update_state with an absent new state is a no-op: nothing is pushed,
\* no service call is issued, and the characteristic value and the
\* suppression flag are left as they were.
C4_AbsentStateIsNoOp ==
    [][ (IsStep("update_state") /\ last'.new_state = None) =>
            UNCHANGED << char_on, pushes, service_calls, flag_target_state >>
      ]_vars

C4_Witness ==
    /\ last.op = "update_state"
    /\ last.new_state = None
    /\ nops = 3
    /\ flag_target_state
    /\ char_on
    /\ Len(pushes) = 1

(***************************************************************************)
(*               Properties of turn_on (light and group)                   *)
(***************************************************************************)
\* the invocation has ended, by returning or by raising
Completed(c) == c.status \in { "returned", "raised" }

\* positions in the commands an invocation issued that carry the name
Positions(c, names) ==
    { i \in 1..Len(c.issued) : c.issued[i].name \in names }

\* C5: a light turn_on that requests brightness, XY color and a transition
\* issues an XY color command without transition_time, followed by a dimmer
\* command with transition_time = int(transition) * 10.
C5_TransitionOnlyOnDimmer ==
    \A t \in Tasks :
        LET c == calls[t]
        IN  ( /\ cls = "TradfriLight"
              /\ c.op = "turn_on"
              /\ Completed(c)
              /\ c.kwargs.brightness # None
              /\ c.kwargs.xy_color # None
              /\ c.kwargs.transition # None ) =>
            \E i \in Positions(c, { "set_xy_color" }) :
                /\ c.issued[i].transition_time = None
                /\ i + 1 \in Positions(c, { "set_dimmer" })
                /\ c.issued[i + 1].transition_time
                     = Some((c.kwargs.transition[1] \div 10) * 10)

\* C6: for the light and the group adapter, a turn_on that requests
\* brightness 255 issues a dimmer command with value 254, one that requests
\* b in 0..254 issues a dimmer command with value b, and no dimmer command
\* carries 255.
C6_BrightnessClamped ==
    \A t \in Tasks :
        LET c == calls[t]
        IN  /\ ( /\ c.op = "turn_on"
                 /\ Completed(c)
                 /\ c.kwargs.brightness # None ) =>
               \E i \in Positions(c, { "set_dimmer" }) :
                   c.issued[i].args =
                       << IF c.kwargs.brightness[1] = 255
                          THEN 254 ELSE c.kwargs.brightness[1] >>
            /\ \A i \in Positions(c, { "set_dimmer" }) :
                   c.issued[i].args # << 255 >>

\* C7: a light turn_on given both an HS color and a color temperature, on a
\* device whose cached hex color is present, issues an RGB color command,
\* and issues it before any color-temperature command of the same call.
C7_HsBeforeTemperature ==
    \A t \in Tasks :
        LET c == calls[t]
        IN  ( /\ cls = "TradfriLight"
              /\ c.op = "turn_on"
              /\ c.status # "idle"
              /\ c.kwargs.hs_color # None
              /\ c.kwargs.color_temp # None
              /\ c.hex_color # None ) =>
            /\ Positions(c, { "set_rgb_color" }) # {}
            /\ \A j \in Positions(c, { "set_kelvin_color",
                                       "set_color_temp" }) :
                   \E i \in Positions(c, { "set_rgb_color" }) : i < j

C7_Witness ==
    /\ cls = "TradfriLight"
    /\ calls[1].op = "turn_on"
    /\ Completed(calls[1])
    /\ calls[1].kwargs.hs_color = Some(<< 10, 50 >>)
    /\ calls[1].kwargs.color_temp = Some(300)
    /\ calls[1].hex_color # None
    /\ Len(calls[1].issued) = 1
    /\ calls[1].issued[1].name = "set_rgb_color"

\* the color command C8 expects of an invocation: the one for the first
\* attribute, in the order HS, Kelvin, XY, RGB, color temperature, whose
\* condition holds
ExpectedColorCommands(c) ==
    IF c.kwargs.hs_color # None /\ c.hex_color # None
    THEN << "set_rgb_color" >>
    ELSE IF /\ c.kwargs.color_temp # None
            /\ c.hex_color # None
            /\ c.temp_supported = "True"
    THEN << "set_kelvin_color" >>
    ELSE IF c.kwargs.xy_color # None \/ c.kwargs.rgb_color # None
    THEN << "set_xy_color" >>
    ELSE IF c.kwargs.color_temp # None
    THEN << "set_color_temp" >>
    ELSE << >>

ColorCommandNames ==
    { "set_rgb_color", "set_kelvin_color", "set_xy_color", "set_color_temp" }

\* the names of the color-setting commands an invocation issued, in order
IssuedColorCommands(c) ==
    LET pos == Positions(c, ColorCommandNames)
        F[i \in 0..Len(c.issued)] ==
            IF i = 0 THEN << >>
            ELSE IF i \in pos THEN Append(F[i - 1], c.issued[i].name)
                 ELSE F[i - 1]
    IN  F[Len(c.issued)]

\* C8: color attributes are evaluated in the order HS (if supported), color
\* temperature as Kelvin, XY, RGB, plain color temperature, first match
\* wins: every light turn_on issues at most one color-setting command, the
\* one for the first attribute in that order whose condition holds.
C8_FirstColorAttributeWins ==
    \A t \in Tasks :
        LET c == calls[t]
        IN  (cls = "TradfriLight" /\ c.op = "turn_on" /\ Completed(c)) =>
            IssuedColorCommands(c) = ExpectedColorCommands(c)

(***************************************************************************)
(*                    Properties of the observe loop                       *)
(***************************************************************************)
\* C9: whenever a subscription attempt fails, synchronously (caught in the
\* except clause) or through the error callback, a new attempt is started
\* immediately; under persistent failure the loop never reaches a terminal
\* state, so the number of attempts is not limited.
C9_RetriesForever ==
    [][ /\ obs.state = "in_except" =>
            (obs'.state = "in_try" /\ obs'.attempts = obs.attempts + 1)
        /\ obs'.state # "crashed"
      ]_vars

\* a step in which a push update was delivered to _observe_update
IsPush == ha_updates' = ha_updates + 1

\* C10 as stated: each successful push callback starts a new observe
\* request.
C10_PushResubscribes ==
    [][ IsPush => obs'.attempts = obs.attempts + 1 ]_vars

\* C10 as amended: a push callback refreshes the cache from the pushed
\* handle and notifies the host once, and starts no observe request: the
\* observe loop is left as it was, still observing.
C10_PushDoesNotResubscribe ==
    [][ IsPush =>
            /\ obs' = obs
            /\ obs'.state = "observing"
            /\ cache' \in { LightRefresh(d) : d \in LightHandles }
                          \cup { GroupRefresh(d) : d \in GroupHandles }
      ]_vars

C10_Witness ==
    /\ ha_updates = 2
    /\ obs.state = "observing"
    /\ obs.attempts = 1

(***************************************************************************)
(*                 Properties of the cached snapshot                       *)
(***************************************************************************)
\* what a TradfriLight built from device handle d holds after __init__
FreshLight(d) ==
    [light |-> d,
     available |-> d.reachable,
     light_control |-> d.light_control,
     light_data |-> d.light_control.lights[1],
     name |-> d.name,
     hs_color |-> None,
     features |->
        { f \in { "SUPPORT_BRIGHTNESS", "SUPPORT_TRANSITION",
                  "SUPPORT_COLOR_TEMP", "SUPPORT_COLOR" } :
            \/ f \in { "SUPPORT_BRIGHTNESS", "SUPPORT_TRANSITION" }
            \/ f = "SUPPORT_COLOR_TEMP" /\ d.light_control.can_set_mireds
            \/ f = "SUPPORT_COLOR" /\ d.light_control.can_set_color }]

\* C11: every push delivered to a light adapter with device handle d
\* replaces the cache wholesale and notifies the host exactly once: every
\* cached field then equals what an adapter freshly built from d holds,
\* whatever the cache held before.
C11_PushReplacesCache ==
    [][ (cls = "TradfriLight" /\ delivered'.n = delivered.n + 1) =>
            /\ cache' = FreshLight(delivered'.device[1])
            /\ ha_updates' = ha_updates + 1
      ]_vars

C11_Witness ==
    /\ cls = "TradfriLight"
    /\ delivered.n = 2
    /\ "SUPPORT_COLOR" \in delivered.before[1].features
    /\ delivered.before[1].name = "lamp"
    /\ ~delivered.device[1].light_control.can_set_color
    /\ "SUPPORT_COLOR" \notin cache.features
    /\ cache.name = "bulb"
    /\ ha_updates = 2

\* a step in which an invocation of turn_on / turn_off starts or resumes
IsCallStep == calls' # calls

\* C12: the cache is read-only between refreshes: turn_on and turn_off of
\* the light and the group adapter, with any options and whatever commands
\* they issue, leave every cached field unchanged; after construction only
\* a delivered push update changes the cache.
C12_CacheReadOnlyBetweenRefreshes ==
    [][ /\ IsCallStep => cache' = cache
        /\ cache' # cache => delivered'.n = delivered.n + 1
      ]_vars

C12_Witness ==
    /\ delivered.n = 1
    /\ cache # delivered.before[1]
    /\ \E c \in { calls[1] } :
          /\ c.op = "turn_on"
          /\ c.status \in { "returned", "raised" }
          /\ c.kwargs.brightness = Some(255)
          /\ c.issued # << >>
    /\ ncalls = 2

(***************************************************************************)
(*                   Properties of command dispatch                        *)
(***************************************************************************)
\* commands invocation c handed to the command function that have not
\* completed
InFlightOf(c) == Len(c.issued) - c.completed

\* commands of the adapter instance in flight, over all tasks
InFlight ==
    LET F[n \in 0..MaxTasks] ==
            IF n = 0 THEN 0 ELSE F[n - 1] + InFlightOf(calls[n])
    IN  F[MaxTasks]

NormalizedOrigin == xy_arg = << 0, 0 >> /\ xy_result # None

\* C14 as stated: normalize_xy(0.0, 0.0) returns (36, 36).
C14_OriginGives36 == NormalizedOrigin => xy_result = Some(<< 36, 36 >>)

\* C14 as amended: each coordinate is scaled by 65535, the bias 0.56 is
\* added and the result is truncated to an integer r, that is
\* r <= arg*65535 + 0.56 < r + 1; for (0.0, 0.0) this is (0, 0), and for
\* (1.0, 1.0) it is (65535, 65535).
C14_ScaledBiasedTruncated ==
    /\ NormalizedOrigin => xy_result = Some(<< 0, 0 >>)
    /\ xy_result # None =>
          /\ \A i \in { 1, 2 } :
                /\ xy_result[1][i] * 1000 <= xy_arg[i] * 65535 + 560
                /\ xy_arg[i] * 65535 + 560 < (xy_result[1][i] + 1) * 1000
          /\ xy_arg = << 1000, 1000 >> =>
                xy_result = Some(<< 65535, 65535 >>)

C14_Witness == NormalizedOrigin /\ xy_result = Some(<< 0, 0 >>)

(***************************************************************************)
(*                 Further properties of the Switch accessory              *)
(***************************************************************************)
\* C15: update_state never issues a host service call and never triggers
\* set_state: its push is made with should_callback false and a step of
\* update_state leaves the service calls as they were, while a step of
\* set_state adds exactly one; so the number of service calls always equals
\* the number of set_state invocations.
C15_NoEchoLoop ==
    [][ /\ \A i \in 1..Len(pushes') : ~pushes'[i].should_callback
        /\ last'.op = "update_state" => service_calls' = service_calls
        /\ last'.op = "set_state" =>
              Len(service_calls') = Len(service_calls) + 1 ]_vars

\* an update_state pushed to the characteristic after a set_state had
\* issued its service call
C15_Witness ==
    /\ last.op = "update_state"
    /\ last.new_state # None
    /\ Len(service_calls) = 1
    /\ Len(pushes) >= 1
    /\ nops = 3

\* a step of update_state with a present state
IsPresentUpdate == last'.op = "update_state" /\ last'.new_state # None

\* C16: the suppression flag is a boolean, not a counter: every set_state
\* leaves it set however many came before, an update_state without a state
\* leaves it as it is, the first update_state with a present state that
\* follows is suppressed (no push) and uses the suppression up, so that the
\* second one pushes its boolean to the characteristic.
C16_FlagIsBoolean ==
    [][ /\ flag_target_state' \in BOOLEAN
        /\ last'.op = "set_state" => flag_target_state' /\ pushes' = pushes
        /\ (last'.op = "update_state" /\ last'.new_state = None) =>
              flag_target_state' = flag_target_state /\ pushes' = pushes
        /\ (IsPresentUpdate /\ flag_target_state) =>
              ~flag_target_state' /\ pushes' = pushes /\ ~last'.pushed
        /\ (IsPresentUpdate /\ ~flag_target_state) =>
              /\ ~flag_target_state'
              /\ last'.pushed
              /\ char_on' = CurrentState(last'.new_state)
              /\ Len(pushes') = Len(pushes) + 1
              /\ pushes'[Len(pushes')].value = CurrentState(last'.new_state)
      ]_vars

\* two set_state calls, then a suppressed update_state, then one that pushed
C16_Witness ==
    /\ nops = 4
    /\ Len(service_calls) = 2
    /\ Len(pushes) = 1
    /\ last.op = "update_state"
    /\ last.pushed

\* C17: when the host service call made by set_state fails, the error
\* propagates to the caller of set_state with the suppression flag already
\* set; the flag stays set, so the next update_state with a present state
\* is suppressed (no push, characteristic untouched) although no command
\* took effect.
C17_FailedCallStillSuppresses ==
    [][ /\ (last'.op = "set_state" /\ last'.call_failed) =>
              last'.raised /\ flag_target_state'
        /\ (last.op = "set_state" /\ last.raised) =>
              /\ flag_target_state
              /\ (last'.op = "update_state" /\ last'.new_state = None) =>
                    flag_target_state'
              /\ IsPresentUpdate =>
                    ~last'.pushed /\ pushes' = pushes /\ char_on' = char_on
      ]_vars

\* the update_state with a present state that followed a set_state whose
\* service call failed, and that did not push
C17_Witness ==
    /\ nops = 2
    /\ Len(service_calls) = 1
    /\ last.op = "update_state"
    /\ last.new_state = Some("on")
    /\ last.call_failed
    /\ ~last.pushed
    /\ pushes = << >>
    /\ ~char_on

(***************************************************************************)
(*                 Properties of the commands of one call                  *)
(***************************************************************************)
\* the commands that switch the device on or set its brightness
FinalNames == { "set_dimmer", "set_state" }

\* C18: every light turn_on that has ended issued, as its last command and
\* exactly once, a dimmer command if and only if a brightness was requested
\* and a set-state-on command if and only if none was (so also after the
\* color command of a color-only call); every turn_off that has ended
\* issued exactly one command, set-state-off.
C18_EndsWithDimmerOrStateOn ==
    \A t \in Tasks :
        LET c == calls[t]
        IN  /\ (cls = "TradfriLight" /\ c.op = "turn_on" /\ Completed(c)) =>
                 /\ Positions(c, FinalNames) = { Len(c.issued) }
                 /\ Len(c.issued) >= 1
                 /\ LET f == c.issued[Len(c.issued)]
                    IN  IF c.kwargs.brightness # None
                        THEN f.name = "set_dimmer"
                        ELSE f.name = "set_state" /\ f.args = << TRUE >>
            /\ (cls = "TradfriLight" /\ c.op = "turn_off" /\ Completed(c)) =>
                 /\ Len(c.issued) = 1
                 /\ c.issued[1].name = "set_state"
                 /\ c.issued[1].args = << FALSE >>

\* C19: every group turn_on issues exactly one device command: with a
\* brightness, a dimmer command whose transition_time is
\* int(transition) * 10 if a transition was requested and absent if not;
\* without a brightness, a set-state-on command without transition_time,
\* whether or not a transition was requested.
C19_GroupTurnOnOneCommand ==
    \A t \in Tasks :
        LET c == calls[t]
        IN  (cls = "TradfriGroup" /\ c.op = "turn_on" /\ c.status # "idle") =>
              /\ Len(c.issued) = 1
              /\ Completed(c) => c.status = "returned"
              /\ IF c.kwargs.brightness # None
                 THEN /\ c.issued[1].name = "set_dimmer"
                      /\ c.issued[1].transition_time =
                           (IF c.kwargs.transition # None
                            THEN Some((c.kwargs.transition[1] \div 10) * 10)
                            ELSE None)
                 ELSE /\ c.issued[1].name = "set_state"
                      /\ c.issued[1].args = << 1 >>
                      /\ c.issued[1].transition_time = None

\* a group turn_on with brightness and a transition of 1.5 s returned after
\* its dimmer command with transition_time 10
C19_Witness ==
    /\ cls = "TradfriGroup"
    /\ calls[1].op = "turn_on"
    /\ calls[1].status = "returned"
    /\ calls[1].kwargs.brightness # None
    /\ calls[1].kwargs.transition = Some(15)
    /\ Len(calls[1].issued) = 1
    /\ calls[1].issued[1].transition_time = Some(10)

====
